---- MODULE Spec2Model ----
(***************************************************************************)
(* Model of the GCOV frame mosaicking pipeline of DSWX-SAR                 *)
(* (src/src/dswx_sar/mosaic_gcov_frame.py).                                *)
(*                                                                         *)
(* Six specifications share the module:                                    *)
(*   SliceSpec  the tiling generator slice_gen, consumed range by range;   *)
(*   SanSpec    the per-block sample sanitization of read_write_rtc;       *)
(*   Spec       one run of RTCReader.process_rtc_hdf5 over an input list;  *)
(*   RwSpec     the block loop of read_write_rtc over one raster;          *)
(*   NameSpec   the file names of a run started through run(cfg);          *)
(*   ZmfSpec    zmf of fuzzy_value_computation.py on an array of values.   *)
(* A specification leaves the variables of the others at rest.             *)
(***************************************************************************)
EXTENDS Integers, Sequences, FiniteSets, TLC

VARIABLES
    \* ---- slice_gen ----
    total_size,      \* argument total_size
    batch_size,      \* argument batch_size
    combine_rem,     \* argument combine_rem
    yielded,         \* the slices the generator has yielded so far, <<start, stop>>
    gen_pc,          \* "idle" | "ready" | "iter" | "done"
    \* ---- sanitization in read_write_rtc ----
    src_blk,         \* the samples of the source sub-rectangle
    ds_blk,          \* the block array ds_blk, mutated in place
    dst_blk,         \* the samples written to the output window
    san_pc,          \* "idle" | "read" | "isinf" | "clamp" | "zero" | "write" | "written"
    \* ---- process_rtc_hdf5 ----
    input_list,      \* the input products, in list order
    pc,              \* position of the run
    fault,           \* the exception that ended the run, "none" while running
    fault_pc,        \* the value of pc at which the exception was raised
    fault_at,        \* the raster the failing call was working on
    input_idx,       \* loop variable input_idx (1-based)
    path_idx,        \* loop variable path_idx / idx (1-based)
    polarizations,   \* local of extract_nisar_polarization
    data_path,       \* the channel names behind data_path, in order
    epsg_array,      \* EPSG code per input
    most_freq_epsg,  \* majority EPSG code
    scratch,         \* the intermediate rasters present in scratch_dir
    stale,           \* locals of write_rtc_geotiff that outlive their loop
    layover_exist,   \* local layover_exist: "unbound" | "true" | "false"
    geogrid_in,      \* the registrations made through update_geogrid, in order
    reproj_calls,    \* the calls made to change_epsg_tif, in order
    combine_calls,   \* the calls made to mosaic_single_output_file, in order
    mosaics,         \* the mosaics present in output_dir
    mosaic_mode,     \* argument mosaic_mode
    \* ---- block loop of read_write_rtc ----
    num_rows,        \* argument num_rows
    num_cols,        \* argument num_cols
    row_blk_size,    \* self.row_blk_size
    col_blk_size,    \* self.col_blk_size
    idx_y,           \* position in slice_gen(num_rows, row_blk_size), 1-based
    idx_x,           \* position in slice_gen(num_cols, col_blk_size), 1-based
    win_reads,       \* the windows asked of h5_ds.ReadAsArray, in order
    win_writes,      \* the windows written through dst.write, in order
    rw_pc,           \* "idle" | "open" | "loop" | "closed" | "fault"
    \* ---- file names of a run started through run(cfg) ----
    name_inputs,     \* cfg input_file_path: two paths, each [dir, name]
    mosaic_prefix,   \* cfg mosaic_prefix
    scratch_dir,     \* local scratch_dir of run, "unset" before it is read
    output_dir,      \* parameter output_dir of process_rtc_hdf5
    name_prefixes,   \* the identifiers extract_file_name returned, in order
    name_pc,         \* "idle" | "run" | "stage" | "mosaic" | "done"
    \* ---- zmf ----
    zmf_values,      \* argument values
    zmf_minv,        \* argument minv
    zmf_maxv,        \* argument maxv
    zmf_output,      \* the array output, each element <<numerator, denominator>>
    zmf_pc           \* "idle" | "zeros" | "left" | "right" | "upper" | "lower" | "done"

slice_vars == <<total_size, batch_size, combine_rem, yielded, gen_pc>>
san_vars == <<src_blk, ds_blk, dst_blk, san_pc>>
run_vars == <<input_list, pc, fault, fault_pc, fault_at, input_idx, path_idx,
              polarizations, data_path, epsg_array, most_freq_epsg, scratch,
              stale, layover_exist, geogrid_in, reproj_calls, combine_calls,
              mosaics, mosaic_mode>>
rw_vars == <<num_rows, num_cols, row_blk_size, col_blk_size, idx_y, idx_x,
             win_reads, win_writes, rw_pc>>
name_vars == <<name_inputs, mosaic_prefix, scratch_dir, output_dir,
               name_prefixes, name_pc>>
zmf_vars == <<zmf_values, zmf_minv, zmf_maxv, zmf_output, zmf_pc>>
vars == <<slice_vars, san_vars, run_vars, rw_vars, name_vars, zmf_vars>>

(***************************************************************************)
(* Bounds of the model.                                                    *)
(***************************************************************************)
MaxTotal == 12
MaxBlock == 5
BlkLen == 2
MaxInputs == 3
MaxDim == 5
MaxNameLen == 3
MaxV == 4

(***************************************************************************)
(* Variables at rest.                                                      *)
(***************************************************************************)
SliceIdle ==
    /\ total_size = 0
    /\ batch_size = 1
    /\ combine_rem = TRUE
    /\ yielded = <<>>
    /\ gen_pc = "idle"

SanIdle ==
    /\ src_blk = <<>>
    /\ ds_blk = <<>>
    /\ dst_blk = <<>>
    /\ san_pc = "idle"

RwIdle ==
    /\ num_rows = 1
    /\ num_cols = 1
    /\ row_blk_size = 1
    /\ col_blk_size = 1
    /\ idx_y = 1
    /\ idx_x = 1
    /\ win_reads = <<>>
    /\ win_writes = <<>>
    /\ rw_pc = "idle"

NameIdle ==
    /\ name_inputs = <<>>
    /\ mosaic_prefix = <<>>
    /\ scratch_dir = "unset"
    /\ output_dir = "unset"
    /\ name_prefixes = <<>>
    /\ name_pc = "idle"

ZmfIdle ==
    /\ zmf_values = <<>>
    /\ zmf_minv = 0
    /\ zmf_maxv = 1
    /\ zmf_output = <<>>
    /\ zmf_pc = "idle"

RunIdle ==
    /\ input_list = <<>>
    /\ pc = "idle"
    /\ fault = "none"
    /\ fault_pc = "none"
    /\ fault_at = <<0, "none">>
    /\ input_idx = 1
    /\ path_idx = 1
    /\ polarizations = <<>>
    /\ data_path = <<>>
    /\ epsg_array = <<>>
    /\ most_freq_epsg = 0
    /\ scratch = {}
    /\ stale = [output_gtiff |-> <<0, "none">>, geo |-> 0, num_rows |-> 0]
    /\ layover_exist = "unbound"
    /\ geogrid_in = <<>>
    /\ reproj_calls = <<>>
    /\ combine_calls = <<>>
    /\ mosaics = {}
    /\ mosaic_mode = "average"

(***************************************************************************)
(* slice_gen                                                               *)
(***************************************************************************)

\* range(0, stop, step) of Python as the sequence of its values
PyRange(stop, step) ==
    LET n == IF stop <= 0 THEN 0 ELSE (stop + step - 1) \div step
    IN  [k \in 1..n |-> (k - 1) * step]

\* the remainder emitted as a range of its own instead of being merged
slice_gen_split_rem(total, batch, combine) ==
    LET num_complete_blks == total \div batch
        num_total_complete == num_complete_blks * batch
        num_rem == total - num_total_complete
        full == [k \in 1..Len(PyRange(num_total_complete, batch)) |->
                    <<PyRange(num_total_complete, batch)[k],
                      PyRange(num_total_complete, batch)[k] + batch>>]
    IN  IF combine /\ num_rem > 0
        THEN Append(full, <<num_total_complete, total>>)
        ELSE full

\* the slices slice_gen yields, in order, each as <<start, stop>>
slice_gen(total, batch, combine) ==
    LET num_complete_blks == total \div batch
        num_total_complete == num_complete_blks * batch
        num_rem == total - num_total_complete
        head == PyRange(num_total_complete - batch, batch)
        plain == PyRange(num_total_complete, batch)
    IN  IF combine /\ num_rem > 0
        THEN Append([k \in 1..Len(head) |-> <<head[k], head[k] + batch>>],
                    <<num_total_complete - batch, total>>)
        ELSE [k \in 1..Len(plain) |-> <<plain[k], plain[k] + batch>>]

SliceInit ==
    /\ total_size \in 0..MaxTotal
    /\ batch_size \in 1..MaxBlock
    /\ combine_rem \in BOOLEAN
    /\ yielded = <<>>
    /\ gen_pc = "ready"
    /\ SanIdle
    /\ RunIdle
    /\ RwIdle
    /\ NameIdle
    /\ ZmfIdle

\* the caller obtains the generator; nothing runs until the first next()
SliceCall ==
    /\ gen_pc = "ready"
    /\ gen_pc' = "iter"
    /\ UNCHANGED <<total_size, batch_size, combine_rem, yielded>>
    /\ UNCHANGED <<san_vars, run_vars, rw_vars, name_vars, zmf_vars>>

\* next() on the generator: run to the next yield
SliceYield ==
    /\ gen_pc = "iter"
    /\ Len(yielded) < Len(slice_gen(total_size, batch_size, combine_rem))
    /\ yielded' = Append(yielded,
            slice_gen(total_size, batch_size, combine_rem)[Len(yielded) + 1])
    /\ UNCHANGED <<total_size, batch_size, combine_rem, gen_pc>>
    /\ UNCHANGED <<san_vars, run_vars, rw_vars, name_vars, zmf_vars>>

\* next() on the generator: the body returns, StopIteration
SliceStop ==
    /\ gen_pc = "iter"
    /\ Len(yielded) = Len(slice_gen(total_size, batch_size, combine_rem))
    /\ gen_pc' = "done"
    /\ UNCHANGED <<total_size, batch_size, combine_rem, yielded>>
    /\ UNCHANGED <<san_vars, run_vars, rw_vars, name_vars, zmf_vars>>

SliceNext == SliceCall \/ SliceYield \/ SliceStop

SliceSpec == SliceInit /\ [][SliceNext]_vars

\* the indices a slice <<start, stop>> covers
Covered(s) == s[1]..(s[2] - 1)

\* C1: with combine_rem left True, the slices yielded by slice_gen(total, block)
\* partition [0, total): emitted in increasing order, each starting where the
\* previous one stops, the first starting at 0, the last stopping at total,
\* every index covered exactly once.
SlicesPartitionExtent ==
    (gen_pc = "done" /\ combine_rem) =>
        /\ \A k \in 1..Len(yielded) : yielded[k][1] < yielded[k][2]
        /\ \A k \in 2..Len(yielded) : yielded[k][1] = yielded[k - 1][2]
        /\ Len(yielded) > 0 =>
              (yielded[1][1] = 0 /\ yielded[Len(yielded)][2] = total_size)
        /\ Len(yielded) = 0 => total_size = 0
        /\ \A i \in (0 - MaxBlock - 1)..(MaxTotal + MaxBlock + 1) :
              Cardinality({k \in 1..Len(yielded) : i \in Covered(yielded[k])})
                  = IF i \in 0..(total_size - 1) THEN 1 ELSE 0

\* C2: for 0 < total < block, slice_gen(total, block) yields exactly one
\* slice, the full extent: start 0, stop total.
SmallExtentYieldsFullRange ==
    (gen_pc = "done" /\ combine_rem
        /\ 0 < total_size /\ total_size < batch_size) =>
        yielded = << <<0, total_size>> >>

\* C3: every slice yielded by slice_gen(total, block) except possibly the
\* first has length >= block, and when total is not a multiple of block the
\* last slice yielded stops at total and carries the remainder on top of a
\* full block.
SlicesAtLeastBlock ==
    combine_rem =>
        /\ \A k \in 2..Len(yielded) :
              yielded[k][2] - yielded[k][1] >= batch_size
        /\ (gen_pc = "done" /\ total_size % batch_size # 0) =>
              /\ Len(yielded) >= 1
              /\ yielded[Len(yielded)][2] = total_size
              /\ yielded[Len(yielded)][2] - yielded[Len(yielded)][1]
                    = batch_size + (total_size % batch_size)

\* a remainder was merged into the last full block of a multi-slice tiling
SlicesAtLeastBlockWitness ==
    /\ gen_pc = "done"
    /\ combine_rem
    /\ total_size % batch_size # 0
    /\ Len(yielded) >= 2
    /\ yielded[Len(yielded)][2] - yielded[Len(yielded)][1] > batch_size

(***************************************************************************)
(* Sample sanitization of read_write_rtc                                   *)
(*                                                                         *)
(* A float32 sample is <<"fin", n>> (the finite value n), <<"negzero", 0>> *)
(* (-0.0), <<"inf", 1>>, <<"inf", -1>> or <<"nan", 0>>.                    *)
(***************************************************************************)
designated_value == 500

Fin(n) == <<"fin", n>>
PosInf == <<"inf", 1>>
NegInf == <<"inf", -1>>
NaN == <<"nan", 0>>
NegZero == <<"negzero", 0>>

Samples ==
    {Fin(n) : n \in {0 - designated_value - 1, -1, 0, 1,
                     designated_value - 1, designated_value,
                     designated_value + 1}}
        \cup {NegZero, PosInf, NegInf, NaN}

\* np.isinf mistaken for np.isposinf
np_isposinf(v) == v = PosInf

\* np.isinf(v)
np_isinf(v) == v[1] = "inf"

\* v > d for float samples; every comparison with NaN is False
GreaterThan(v, d) ==
    \/ v = PosInf
    \/ v[1] = "fin" /\ v[2] > d

\* v == 0 for float samples; -0.0 == 0 is True
EqualsZero(v) ==
    \/ v = Fin(0)
    \/ v = NegZero

\* ds_blk[np.isinf(ds_blk)] = designated_value
ReplaceInfValues(blk) ==
    [k \in 1..Len(blk) |->
        IF np_isinf(blk[k]) THEN Fin(designated_value) ELSE blk[k]]

\* the comparison of the clamp is turned round
ClampValuesBelow(blk) ==
    [k \in 1..Len(blk) |->
        IF blk[k] # NaN /\ ~GreaterThan(blk[k], designated_value)
              /\ blk[k] # Fin(designated_value)
        THEN Fin(designated_value) ELSE blk[k]]

\* ds_blk[ds_blk > designated_value] = designated_value
ClampValues(blk) ==
    [k \in 1..Len(blk) |->
        IF GreaterThan(blk[k], designated_value)
        THEN Fin(designated_value) ELSE blk[k]]

\* ds_blk[ds_blk == 0] = np.nan
ZeroToNan(blk) ==
    [k \in 1..Len(blk) |-> IF EqualsZero(blk[k]) THEN NaN ELSE blk[k]]

SanInit ==
    /\ src_blk \in [1..BlkLen -> Samples]
    /\ ds_blk = <<>>
    /\ dst_blk = <<>>
    /\ san_pc = "read"
    /\ SliceIdle
    /\ RunIdle
    /\ RwIdle
    /\ NameIdle
    /\ ZmfIdle

\* ds_blk = h5_ds.ReadAsArray(...)
ReadAsArray ==
    /\ san_pc = "read"
    /\ ds_blk' = src_blk
    /\ san_pc' = "isinf"
    /\ UNCHANGED <<src_blk, dst_blk>>
    /\ UNCHANGED <<slice_vars, run_vars, rw_vars, name_vars, zmf_vars>>

SanReplaceInf ==
    /\ san_pc = "isinf"
    /\ ds_blk' = ReplaceInfValues(ds_blk)
    /\ san_pc' = "clamp"
    /\ UNCHANGED <<src_blk, dst_blk>>
    /\ UNCHANGED <<slice_vars, run_vars, rw_vars, name_vars, zmf_vars>>

SanClamp ==
    /\ san_pc = "clamp"
    /\ ds_blk' = ClampValues(ds_blk)
    /\ san_pc' = "zero"
    /\ UNCHANGED <<src_blk, dst_blk>>
    /\ UNCHANGED <<slice_vars, run_vars, rw_vars, name_vars, zmf_vars>>

SanZeroToNan ==
    /\ san_pc = "zero"
    /\ ds_blk' = ZeroToNan(ds_blk)
    /\ san_pc' = "write"
    /\ UNCHANGED <<src_blk, dst_blk>>
    /\ UNCHANGED <<slice_vars, run_vars, rw_vars, name_vars, zmf_vars>>

\* dst.write(ds_blk, 1, window=...)
DstWrite ==
    /\ san_pc = "write"
    /\ dst_blk' = ds_blk
    /\ san_pc' = "written"
    /\ UNCHANGED <<src_blk, ds_blk>>
    /\ UNCHANGED <<slice_vars, run_vars, rw_vars, name_vars, zmf_vars>>

SanNext == ReadAsArray \/ SanReplaceInf \/ SanClamp \/ SanZeroToNan \/ DstWrite

SanSpec == SanInit /\ [][SanNext]_vars

\* the sample the specification's sanitization table gives for v
TableSample(v) ==
    IF v = PosInf THEN Fin(designated_value)
    ELSE IF GreaterThan(v, designated_value) THEN Fin(designated_value)
    ELSE IF EqualsZero(v) THEN NaN
    ELSE v

\* C4 as stated: the sample written for v is 500.0 if v is +inf, 500.0 if
\* v > 500.0, NaN if v is exactly 0, and v itself for every other sample,
\* -inf included.
SanitizedPerTable ==
    san_pc = "written" =>
        \A k \in 1..Len(src_blk) : dst_blk[k] = TableSample(src_blk[k])

\* C4 as amended: the sample written for v is 500.0 if v is +inf or -inf,
\* 500.0 if v > 500.0, NaN if v is exactly 0, and v itself for every other
\* sample.
SanitizedBothInfinities ==
    san_pc = "written" =>
        \A k \in 1..Len(src_blk) :
            dst_blk[k] = IF src_blk[k] = NegInf THEN Fin(designated_value)
                         ELSE TableSample(src_blk[k])

\* a block holding -inf and a sample above the sentinel has been written
SanitizedBothInfinitiesWitness ==
    /\ san_pc = "written"
    /\ \E k \in 1..Len(src_blk) : src_blk[k] = NegInf
    /\ \E k \in 1..Len(src_blk) : src_blk[k] = Fin(designated_value + 1)

(***************************************************************************)
(* process_rtc_hdf5                                                        *)
(*                                                                         *)
(* An input product is a record: whether its path exists, its             *)
(* listOfPolarizations after np.sort, its projection code, and whether it  *)
(* holds the layoverShadowMask dataset.  The inputs of a run are taken to  *)
(* have pairwise distinct file name identifiers, so the identifier of the  *)
(* input at position i is i.  An intermediate raster is named by the path  *)
(* <<identifier, layer>>, layer being a channel code or "layover".         *)
(* The collaborators change_epsg_tif and mosaic_single_output_file either  *)
(* return or raise; majority_element returns one of the most frequent      *)
(* codes.                                                                  *)
(***************************************************************************)
output_nodata == 255

Channels == <<"HH", "HV">>
MosaicModes == {"average", "first", "burst_center"}
EpsgCodes == {32610, 32611}

\* the sorted polarization lists a product can hold
PolLists == {<<>>, <<Channels[1]>>, <<Channels[2]>>, Channels}

MissingProduct ==
    [exists |-> FALSE, pols |-> <<>>, epsg |-> 0, layover |-> FALSE]

Products ==
    [exists : {TRUE}, pols : PolLists, epsg : EpsgCodes, layover : BOOLEAN]
        \cup {MissingProduct}

NumInputs == Len(input_list)

SeqToSet(q) == {q[k] : k \in 1..Len(q)}

\* the exception kind is recorded and the run stops where it is
Raise(kind, at) ==
    /\ pc' = "fault"
    /\ fault' = kind
    /\ fault_pc' = pc
    /\ fault_at' = at

NoFault == UNCHANGED <<fault, fault_pc, fault_at>>

Init ==
    /\ input_list \in UNION {[1..n -> Products] : n \in 0..MaxInputs}
    /\ pc = "discover"
    /\ fault = "none"
    /\ fault_pc = "none"
    /\ fault_at = <<0, "none">>
    /\ input_idx = 1
    /\ path_idx = 1
    /\ polarizations = <<>>
    /\ data_path = <<>>
    /\ epsg_array = <<>>
    /\ most_freq_epsg = 0
    /\ scratch = {}
    /\ stale = [output_gtiff |-> <<0, "none">>, geo |-> 0, num_rows |-> 0]
    /\ layover_exist = "unbound"
    /\ geogrid_in = <<>>
    /\ reproj_calls = <<>>
    /\ combine_calls = <<>>
    /\ mosaics = {}
    /\ mosaic_mode \in MosaicModes
    /\ SliceIdle
    /\ SanIdle
    /\ RwIdle
    /\ NameIdle
    /\ ZmfIdle

(* ---- Discover: extract_nisar_polarization -------------------------------*)

\* only the first input is looked at
FirstInputOnly == 1..(IF NumInputs = 0 THEN 0 ELSE 1)

\* the inputs the loop of extract_nisar_polarization iterates over
DiscoverIndices == 1..NumInputs

\* np.all(polarizations == pols) under numpy broadcasting: "same", "differ",
\* or "shape" when the two shapes cannot be broadcast together
PolsCompare(a, b) ==
    IF Len(a) = Len(b)
    THEN (IF \A k \in 1..Len(a) : a[k] = b[k] THEN "same" ELSE "differ")
    ELSE IF Len(a) = 1
    THEN (IF \A k \in 1..Len(b) : b[k] = a[1] THEN "same" ELSE "differ")
    ELSE IF Len(b) = 1
    THEN (IF \A k \in 1..Len(a) : a[k] = b[1] THEN "same" ELSE "differ")
    ELSE "shape"

\* one iteration of the loop over input_list
ExtractPolarization ==
    /\ pc = "discover"
    /\ input_idx \in DiscoverIndices
    /\ LET p == input_list[input_idx]
       IN  IF ~p.exists
           THEN /\ Raise("FileNotFoundError", <<input_idx, "none">>)
                /\ UNCHANGED <<input_idx, polarizations>>
           ELSE IF Len(polarizations) = 0
           THEN /\ polarizations' = p.pols
                /\ input_idx' = input_idx + 1
                /\ UNCHANGED pc
                /\ NoFault
           ELSE IF PolsCompare(polarizations, p.pols) # "same"
           THEN /\ Raise("ValueError", <<input_idx, "none">>)
                /\ UNCHANGED <<input_idx, polarizations>>
           ELSE /\ input_idx' = input_idx + 1
                /\ UNCHANGED <<pc, polarizations>>
                /\ NoFault
    /\ UNCHANGED <<mosaic_mode, input_list, path_idx, data_path, epsg_array, most_freq_epsg,
                   scratch, stale, layover_exist, geogrid_in, reproj_calls,
                   combine_calls, mosaics>>
    /\ UNCHANGED <<slice_vars, san_vars, rw_vars, name_vars, zmf_vars>>

\* a dataset path under the frequencyA group, kept as the doubled code
generate_nisar_dataset_name(pols) ==
    [k \in 1..Len(pols) |-> <<pols[k], pols[k]>>]

\* Path(dataset_path).name[:2]
DataName(dataset_path) == dataset_path[1]

\* the loop is over: pols_rtc is returned and the dataset names are generated
GenerateNames ==
    /\ pc = "discover"
    /\ input_idx \notin DiscoverIndices
    /\ data_path' = generate_nisar_dataset_name(polarizations)
    /\ pc' = "epsg"
    /\ NoFault
    /\ UNCHANGED <<mosaic_mode, input_list, input_idx, path_idx, polarizations, epsg_array,
                   most_freq_epsg, scratch, stale, layover_exist, geogrid_in,
                   reproj_calls, combine_calls, mosaics>>
    /\ UNCHANGED <<slice_vars, san_vars, rw_vars, name_vars, zmf_vars>>

\* get_nisar_epsg: every input is opened; epsg_array[0] is read
GetNisarEpsg ==
    /\ pc = "epsg"
    /\ IF \E i \in 1..NumInputs : ~input_list[i].exists
       THEN /\ Raise("FileNotFoundError",
                     <<CHOOSE i \in 1..NumInputs :
                          /\ ~input_list[i].exists
                          /\ \A j \in 1..(i - 1) : input_list[j].exists,
                       "none">>)
            /\ UNCHANGED epsg_array
       ELSE IF NumInputs = 0
       THEN /\ Raise("IndexError", <<0, "none">>)
            /\ UNCHANGED epsg_array
       ELSE /\ epsg_array' = [i \in 1..NumInputs |-> input_list[i].epsg]
            /\ pc' = "majority"
            /\ NoFault
    /\ UNCHANGED <<mosaic_mode, input_list, input_idx, path_idx, polarizations, data_path,
                   most_freq_epsg, scratch, stale, layover_exist, geogrid_in,
                   reproj_calls, combine_calls, mosaics>>
    /\ UNCHANGED <<slice_vars, san_vars, rw_vars, name_vars, zmf_vars>>

Count(arr, e) == Cardinality({i \in 1..Len(arr) : arr[i] = e})

\* the codes majority_element may return for arr
MostFrequent(arr) ==
    {e \in SeqToSet(arr) : \A f \in SeqToSet(arr) : Count(arr, f) <= Count(arr, e)}

\* most_freq_epsg = majority_element(epsg_array)
MajorityElement ==
    /\ pc = "majority"
    /\ \E e \in MostFrequent(epsg_array) : most_freq_epsg' = e
    /\ pc' = "stage"
    /\ input_idx' = 1
    /\ path_idx' = 0
    /\ NoFault
    /\ UNCHANGED <<mosaic_mode, input_list, polarizations, data_path, epsg_array, scratch,
                   stale, layover_exist, geogrid_in, reproj_calls,
                   combine_calls, mosaics>>
    /\ UNCHANGED <<slice_vars, san_vars, rw_vars, name_vars, zmf_vars>>

(* ---- Stage, Harmonize, layover: write_rtc_geotiff ------------------------*)

\* extract_file_name raises FileNotFoundError for a path that does not exist
FileNameRaises(i) == ~input_list[i].exists

\* the file name identifier extract_file_name returns for the input at i
extract_file_name(i) == i

HasFile(path) == \E f \in scratch : f.path = path
FileAt(path) == CHOOSE f \in scratch : f.path = path

\* a raster is created at its path, replacing what was there
WriteFile(files, rec) == {f \in files : f.path # rec.path} \cup {rec}

\* the position after the body at (i, k) of a loop nest over inputs and data_path
NextPos(i, k) ==
    IF k < Len(data_path) THEN <<i, k + 1>> ELSE <<i + 1, 0>>

\* top of an iteration of the staging loop: identifier, geodata, metadata
StageInput ==
    /\ pc = "stage"
    /\ input_idx <= NumInputs
    /\ path_idx = 0
    /\ IF FileNameRaises(input_idx)
       THEN /\ Raise("FileNotFoundError", <<input_idx, "none">>)
            /\ UNCHANGED <<input_idx, path_idx, stale>>
       ELSE /\ stale' = [stale EXCEPT !.geo = input_idx]
            /\ input_idx' = NextPos(input_idx, 0)[1]
            /\ path_idx' = NextPos(input_idx, 0)[2]
            /\ UNCHANGED pc
            /\ NoFault
    /\ UNCHANGED <<mosaic_mode, input_list, polarizations, data_path, epsg_array,
                   most_freq_epsg, scratch, layover_exist, geogrid_in,
                   reproj_calls, combine_calls, mosaics>>
    /\ UNCHANGED <<slice_vars, san_vars, rw_vars, name_vars, zmf_vars>>

\* one channel of one input: gdal.Open, then read_write_rtc
StageRaster ==
    /\ pc = "stage"
    /\ input_idx <= NumInputs
    /\ path_idx >= 1
    /\ LET data_name == DataName(data_path[path_idx])
           output_gtiff == <<extract_file_name(input_idx), data_name>>
       IN  IF data_name \notin SeqToSet(input_list[input_idx].pols)
           THEN \* gdal.Open returned None: h5_ds.RasterXSize raises
                /\ Raise("AttributeError", output_gtiff)
                /\ UNCHANGED <<input_idx, path_idx, scratch, stale>>
           ELSE /\ scratch' = WriteFile(scratch,
                       [path |-> output_gtiff,
                        crs |-> input_list[stale.geo].epsg,
                        geo |-> stale.geo,
                        rows |-> input_idx,
                        reprojected |-> FALSE])
                /\ stale' = [stale EXCEPT !.output_gtiff = output_gtiff,
                                          !.num_rows = input_idx]
                /\ input_idx' = NextPos(input_idx, path_idx)[1]
                /\ path_idx' = NextPos(input_idx, path_idx)[2]
                /\ UNCHANGED pc
                /\ NoFault
    /\ UNCHANGED <<mosaic_mode, input_list, polarizations, data_path, epsg_array,
                   most_freq_epsg, layover_exist, geogrid_in, reproj_calls,
                   combine_calls, mosaics>>
    /\ UNCHANGED <<slice_vars, san_vars, rw_vars, name_vars, zmf_vars>>

\* geogrid_in = DSWXGeogrid()
StageDone ==
    /\ pc = "stage"
    /\ input_idx > NumInputs
    /\ geogrid_in' = <<>>
    /\ pc' = "harmonize"
    /\ input_idx' = 1
    /\ path_idx' = 0
    /\ NoFault
    /\ UNCHANGED <<mosaic_mode, input_list, polarizations, data_path, epsg_array,
                   most_freq_epsg, scratch, stale, layover_exist,
                   reproj_calls, combine_calls, mosaics>>
    /\ UNCHANGED <<slice_vars, san_vars, rw_vars, name_vars, zmf_vars>>

\* what update_geogrid(path) reads: the raster now at path
Registration(path) ==
    [path |-> path, crs |-> FileAt(path).crs, geo |-> FileAt(path).geo,
     reprojected |-> FileAt(path).reprojected]

\* os.replace(temp, path) after change_epsg_tif(path, temp, epsg)
Reprojected(files, path, epsg) ==
    WriteFile(files, [FileAt(path) EXCEPT !.crs = epsg, !.reprojected = TRUE])

\* the exception of change_epsg_tif is dropped and the run resumes after the call
ChangeEpsgIgnored(at, resume) ==
    /\ pc' = resume.pc
    /\ input_idx' = resume.input_idx
    /\ path_idx' = resume.path_idx
    /\ NoFault
    /\ UNCHANGED <<scratch, geogrid_in>>

\* change_epsg_tif raises: nothing after the call runs
ChangeEpsgRaises(at, resume) ==
    /\ Raise("ReprojectError", at)
    /\ UNCHANGED <<input_idx, path_idx, scratch, geogrid_in>>

\* the EPSG of the input is compared with that of the first input
differs_from_first(i) == epsg_array[i] # epsg_array[1]

\* epsg_array[input_idx] != most_freq_epsg
differs_from_majority(i) == epsg_array[i] # most_freq_epsg

\* top of an iteration of the EPSG loop
HarmonizeInput ==
    /\ pc = "harmonize"
    /\ input_idx <= NumInputs
    /\ path_idx = 0
    /\ IF FileNameRaises(input_idx)
       THEN /\ Raise("FileNotFoundError", <<input_idx, "none">>)
            /\ UNCHANGED <<input_idx, path_idx>>
       ELSE /\ input_idx' = NextPos(input_idx, 0)[1]
            /\ path_idx' = NextPos(input_idx, 0)[2]
            /\ UNCHANGED pc
            /\ NoFault
    /\ UNCHANGED <<mosaic_mode, input_list, polarizations, data_path, epsg_array,
                   most_freq_epsg, scratch, stale, layover_exist, geogrid_in,
                   reproj_calls, combine_calls, mosaics>>
    /\ UNCHANGED <<slice_vars, san_vars, rw_vars, name_vars, zmf_vars>>

\* a channel raster of an input whose EPSG differs from the majority
HarmonizeReproject ==
    /\ pc = "harmonize"
    /\ input_idx <= NumInputs
    /\ path_idx >= 1
    /\ differs_from_majority(input_idx)
    /\ LET input_gtiff ==
               <<extract_file_name(input_idx), DataName(data_path[path_idx])>>
       IN  \E ok \in BOOLEAN :
             /\ reproj_calls' = Append(reproj_calls,
                    [input_tif |-> input_gtiff, epsg_output |-> most_freq_epsg,
                     output_nodata |-> output_nodata, ok |-> ok])
             /\ IF ok
                THEN /\ geogrid_in' =
                            Append(geogrid_in, Registration(stale.output_gtiff))
                     /\ scratch' =
                            Reprojected(scratch, input_gtiff, most_freq_epsg)
                     /\ input_idx' = NextPos(input_idx, path_idx)[1]
                     /\ path_idx' = NextPos(input_idx, path_idx)[2]
                     /\ UNCHANGED pc
                     /\ NoFault
                ELSE ChangeEpsgRaises(input_gtiff,
                        [pc |-> pc,
                         input_idx |-> NextPos(input_idx, path_idx)[1],
                         path_idx |-> NextPos(input_idx, path_idx)[2]])
    /\ UNCHANGED <<mosaic_mode, input_list, polarizations, data_path, epsg_array,
                   most_freq_epsg, stale, layover_exist, combine_calls,
                   mosaics>>
    /\ UNCHANGED <<slice_vars, san_vars, rw_vars, name_vars, zmf_vars>>

\* a new DSWXGeogrid is made for each raster registered
HarmonizeRegisterFresh ==
    /\ pc = "harmonize"
    /\ input_idx <= NumInputs
    /\ path_idx >= 1
    /\ ~differs_from_majority(input_idx)
    /\ LET output_gtiff ==
               <<extract_file_name(input_idx), DataName(data_path[path_idx])>>
       IN  /\ geogrid_in' = <<Registration(output_gtiff)>>
           /\ stale' = [stale EXCEPT !.output_gtiff = output_gtiff]
    /\ input_idx' = NextPos(input_idx, path_idx)[1]
    /\ path_idx' = NextPos(input_idx, path_idx)[2]
    /\ NoFault
    /\ UNCHANGED <<mosaic_mode, input_list, pc, polarizations, data_path, epsg_array,
                   most_freq_epsg, scratch, layover_exist, reproj_calls,
                   combine_calls, mosaics>>
    /\ UNCHANGED <<slice_vars, san_vars, rw_vars, name_vars, zmf_vars>>

\* a channel raster of an input whose EPSG is the majority
HarmonizeRegister ==
    /\ pc = "harmonize"
    /\ input_idx <= NumInputs
    /\ path_idx >= 1
    /\ ~differs_from_majority(input_idx)
    /\ LET output_gtiff ==
               <<extract_file_name(input_idx), DataName(data_path[path_idx])>>
       IN  /\ geogrid_in' = Append(geogrid_in, Registration(output_gtiff))
           /\ stale' = [stale EXCEPT !.output_gtiff = output_gtiff]
    /\ input_idx' = NextPos(input_idx, path_idx)[1]
    /\ path_idx' = NextPos(input_idx, path_idx)[2]
    /\ NoFault
    /\ UNCHANGED <<mosaic_mode, input_list, pc, polarizations, data_path, epsg_array,
                   most_freq_epsg, scratch, layover_exist, reproj_calls,
                   combine_calls, mosaics>>
    /\ UNCHANGED <<slice_vars, san_vars, rw_vars, name_vars, zmf_vars>>

HarmonizeDone ==
    /\ pc = "harmonize"
    /\ input_idx > NumInputs
    /\ pc' = "layover"
    /\ input_idx' = 1
    /\ path_idx' = 0
    /\ NoFault
    /\ UNCHANGED <<mosaic_mode, input_list, polarizations, data_path, epsg_array,
                   most_freq_epsg, scratch, stale, layover_exist, geogrid_in,
                   reproj_calls, combine_calls, mosaics>>
    /\ UNCHANGED <<slice_vars, san_vars, rw_vars, name_vars, zmf_vars>>

\* the flag is set although the dataset could not be opened
LayoverMissingFlagged ==
    /\ pc = "layover"
    /\ input_idx <= NumInputs
    /\ ~input_list[input_idx].layover
    /\ layover_exist' = "true"
    /\ pc' = "combine"
    /\ path_idx' = 1
    /\ NoFault
    /\ UNCHANGED <<mosaic_mode, input_list, input_idx, polarizations, data_path, epsg_array,
                   most_freq_epsg, scratch, stale, geogrid_in, reproj_calls,
                   combine_calls, mosaics>>
    /\ UNCHANGED <<slice_vars, san_vars, rw_vars, name_vars, zmf_vars>>

\* h5_layover is None: warn, layover_exist = False, break
LayoverMissing ==
    /\ pc = "layover"
    /\ input_idx <= NumInputs
    /\ ~input_list[input_idx].layover
    /\ layover_exist' = "false"
    /\ pc' = "combine"
    /\ path_idx' = 1
    /\ NoFault
    /\ UNCHANGED <<mosaic_mode, input_list, input_idx, polarizations, data_path, epsg_array,
                   most_freq_epsg, scratch, stale, geogrid_in, reproj_calls,
                   combine_calls, mosaics>>
    /\ UNCHANGED <<slice_vars, san_vars, rw_vars, name_vars, zmf_vars>>

\* the dataset opened: layover_exist = True and the layover raster is written
\* with the num_rows, geotransform, crs and metadata locals as they stand
LayoverWrite ==
    /\ pc = "layover"
    /\ input_idx <= NumInputs
    /\ input_list[input_idx].layover
    /\ layover_exist' = "true"
    /\ LET output_layover_gtiff == <<extract_file_name(input_idx), "layover">>
       IN  IF FileNameRaises(input_idx)
           THEN /\ Raise("FileNotFoundError", <<input_idx, "none">>)
                /\ UNCHANGED <<scratch, stale>>
           ELSE IF stale.num_rows = 0
           THEN \* num_rows was never assigned
                /\ Raise("UnboundLocalError", output_layover_gtiff)
                /\ UNCHANGED <<scratch, stale>>
           ELSE /\ scratch' = WriteFile(scratch,
                       [path |-> output_layover_gtiff,
                        crs |-> input_list[stale.geo].epsg,
                        geo |-> stale.geo,
                        rows |-> stale.num_rows,
                        reprojected |-> FALSE])
                /\ UNCHANGED stale
                /\ pc' = "layover_harmonize"
                /\ NoFault
    /\ UNCHANGED <<mosaic_mode, input_list, input_idx, path_idx, polarizations, data_path,
                   epsg_array, most_freq_epsg, geogrid_in, reproj_calls,
                   combine_calls, mosaics>>
    /\ UNCHANGED <<slice_vars, san_vars, rw_vars, name_vars, zmf_vars>>

\* the layover raster of an input whose EPSG differs from the majority
LayoverReproject ==
    /\ pc = "layover_harmonize"
    /\ differs_from_majority(input_idx)
    /\ LET input_layover_gtiff == <<extract_file_name(input_idx), "layover">>
       IN  \E ok \in BOOLEAN :
             /\ reproj_calls' = Append(reproj_calls,
                    [input_tif |-> input_layover_gtiff,
                     epsg_output |-> most_freq_epsg,
                     output_nodata |-> output_nodata, ok |-> ok])
             /\ IF ok
                THEN /\ geogrid_in' =
                            Append(geogrid_in, Registration(input_layover_gtiff))
                     /\ scratch' =
                            Reprojected(scratch, input_layover_gtiff,
                                        most_freq_epsg)
                     /\ pc' = "layover"
                     /\ input_idx' = input_idx + 1
                     /\ UNCHANGED path_idx
                     /\ NoFault
                ELSE ChangeEpsgRaises(input_layover_gtiff,
                        [pc |-> "layover", input_idx |-> input_idx + 1,
                         path_idx |-> path_idx])
    /\ UNCHANGED <<mosaic_mode, input_list, polarizations, data_path, epsg_array,
                   most_freq_epsg, stale, layover_exist, combine_calls,
                   mosaics>>
    /\ UNCHANGED <<slice_vars, san_vars, rw_vars, name_vars, zmf_vars>>

\* the layover raster of an input whose EPSG is the majority
LayoverRegister ==
    /\ pc = "layover_harmonize"
    /\ ~differs_from_majority(input_idx)
    /\ geogrid_in' =
           Append(geogrid_in,
                  Registration(<<extract_file_name(input_idx), "layover">>))
    /\ pc' = "layover"
    /\ input_idx' = input_idx + 1
    /\ NoFault
    /\ UNCHANGED <<mosaic_mode, input_list, path_idx, polarizations, data_path, epsg_array,
                   most_freq_epsg, scratch, stale, layover_exist, reproj_calls,
                   combine_calls, mosaics>>
    /\ UNCHANGED <<slice_vars, san_vars, rw_vars, name_vars, zmf_vars>>

\* the layover loop ran to its end: write_rtc_geotiff returns
LayoverDone ==
    /\ pc = "layover"
    /\ input_idx > NumInputs
    /\ pc' = "combine"
    /\ path_idx' = 1
    /\ NoFault
    /\ UNCHANGED <<mosaic_mode, input_list, input_idx, polarizations, data_path, epsg_array,
                   most_freq_epsg, scratch, stale, layover_exist, geogrid_in,
                   reproj_calls, combine_calls, mosaics>>
    /\ UNCHANGED <<slice_vars, san_vars, rw_vars, name_vars, zmf_vars>>

(* ---- Combine: mosaic_rtc_geotiff ----------------------------------------*)

\* the list is emptied inside the loop over the inputs: only the last path stays
GtiffListLastOnly(layer) ==
    [i \in 1..(IF NumInputs = 0 THEN 0 ELSE 1) |->
        <<extract_file_name(NumInputs), layer>>]

\* the intermediate raster paths of one layer, one per input, in list order
GtiffList(layer) ==
    [i \in 1..NumInputs |-> <<extract_file_name(i), layer>>]

\* mosaic_single_output_file cannot return normally when a listed raster is absent
CanCombine(layer) ==
    \A i \in 1..Len(GtiffList(layer)) : HasFile(GtiffList(layer)[i])

\* one call of mosaic_single_output_file
CombineCall(layer, ok) ==
    [layer |-> layer, list |-> GtiffList(layer),
     crs |-> [i \in 1..Len(GtiffList(layer)) |->
                 IF HasFile(GtiffList(layer)[i])
                 THEN FileAt(GtiffList(layer)[i]).crs ELSE 0],
     mode |-> mosaic_mode, geogrid |-> geogrid_in, ok |-> ok]

\* one channel: the list is built and the collaborator is called
CombineChannel ==
    /\ pc = "combine"
    /\ path_idx <= Len(data_path)
    /\ LET data_name == DataName(data_path[path_idx])
       IN  \E ok \in {b \in BOOLEAN : b => CanCombine(data_name)} :
             /\ combine_calls' =
                    Append(combine_calls, CombineCall(data_name, ok))
             /\ IF ok
                THEN /\ mosaics' = mosaics \cup {data_name}
                     /\ path_idx' = path_idx + 1
                     /\ UNCHANGED pc
                     /\ NoFault
                ELSE /\ Raise("CombineError", <<0, data_name>>)
                     /\ UNCHANGED <<mosaics, path_idx>>
    /\ UNCHANGED <<mosaic_mode, input_list, input_idx, polarizations, data_path, epsg_array,
                   most_freq_epsg, scratch, stale, layover_exist, geogrid_in,
                   reproj_calls>>
    /\ UNCHANGED <<slice_vars, san_vars, rw_vars, name_vars, zmf_vars>>

\* if layover_exist: the layover list is built and the collaborator is called
CombineLayover ==
    /\ pc = "combine"
    /\ path_idx > Len(data_path)
    /\ layover_exist = "true"
    /\ \E ok \in {b \in BOOLEAN : b => CanCombine("layover")} :
          /\ combine_calls' = Append(combine_calls, CombineCall("layover", ok))
          /\ IF ok
             THEN /\ mosaics' = mosaics \cup {"layover"}
                  /\ pc' = "done"
                  /\ NoFault
             ELSE /\ Raise("CombineError", <<0, "layover">>)
                  /\ UNCHANGED mosaics
    /\ UNCHANGED <<mosaic_mode, input_list, input_idx, path_idx, polarizations, data_path,
                   epsg_array, most_freq_epsg, scratch, stale, layover_exist,
                   geogrid_in, reproj_calls>>
    /\ UNCHANGED <<slice_vars, san_vars, rw_vars, name_vars, zmf_vars>>

\* layover_exist is False: process_rtc_hdf5 returns after the channel mosaics
CombineReturn ==
    /\ pc = "combine"
    /\ path_idx > Len(data_path)
    /\ layover_exist # "true"
    /\ pc' = "done"
    /\ NoFault
    /\ UNCHANGED <<mosaic_mode, input_list, input_idx, path_idx, polarizations, data_path,
                   epsg_array, most_freq_epsg, scratch, stale, layover_exist,
                   geogrid_in, reproj_calls, combine_calls, mosaics>>
    /\ UNCHANGED <<slice_vars, san_vars, rw_vars, name_vars, zmf_vars>>

Next ==
    \/ ExtractPolarization
    \/ GenerateNames
    \/ GetNisarEpsg
    \/ MajorityElement
    \/ StageInput
    \/ StageRaster
    \/ StageDone
    \/ HarmonizeInput
    \/ HarmonizeReproject
    \/ HarmonizeRegister
    \/ HarmonizeDone
    \/ LayoverMissing
    \/ LayoverWrite
    \/ LayoverReproject
    \/ LayoverRegister
    \/ LayoverDone
    \/ CombineChannel
    \/ CombineLayover
    \/ CombineReturn

Spec == Init /\ [][Next]_vars

(* ---- Properties of a run ------------------------------------------------*)

AllExist == \A i \in 1..NumInputs : input_list[i].exists

\* the channel names the run works on
DataNames == {DataName(data_path[k]) : k \in 1..Len(data_path)}

\* the layover rasters of the inputs that hold the layover dataset
LayoverRastersPresent ==
    {<<extract_file_name(i), "layover">> :
        i \in {j \in 1..NumInputs : input_list[j].layover}}

\* C5: in a run where at least one input exposes the layover mask and at
\* least one does not, every channel mosaic is produced, a layover mosaic is
\* produced too, and the raster list handed to the layover Combine call holds
\* exactly the layover rasters of the inputs that had the dataset.
MixedLayoverStillMosaicked ==
    ( /\ pc = "done"
      /\ AllExist
      /\ Len(data_path) >= 1
      /\ \E i \in 1..NumInputs : input_list[i].layover
      /\ \E i \in 1..NumInputs : ~input_list[i].layover ) =>
        /\ DataNames \subseteq mosaics
        /\ "layover" \in mosaics
        /\ \E k \in 1..Len(combine_calls) :
              /\ combine_calls[k].layer = "layover"
              /\ SeqToSet(combine_calls[k].list) = LayoverRastersPresent

\* C6: when no input exposes the layover mask, the layover step raises no
\* fault, no layover raster is written, no layover raster is reprojected, the
\* layover Combine call never happens, and a run that returns has produced
\* exactly one mosaic per channel; past Harmonize only a Combine call on a
\* channel can still end the run in a fault.
NoLayoverIsSkipped ==
    (\A i \in 1..NumInputs : ~input_list[i].layover) =>
        /\ \A f \in scratch : f.path[2] # "layover"
        /\ \A k \in 1..Len(reproj_calls) :
              reproj_calls[k].input_tif[2] # "layover"
        /\ \A k \in 1..Len(combine_calls) : combine_calls[k].layer # "layover"
        /\ "layover" \notin mosaics
        /\ pc # "layover_harmonize"
        /\ pc = "done" => (fault = "none" /\ mosaics = DataNames)
        /\ pc = "fault" =>
              /\ fault_pc \in {"discover", "epsg", "stage", "harmonize",
                               "combine"}
              /\ fault_pc = "combine" =>
                    (fault = "CombineError" /\ fault_at[2] \in DataNames)

\* a run of two or more inputs without layover mask, one of them reprojected,
\* has returned with its channel mosaics
NoLayoverIsSkippedWitness ==
    /\ pc = "done"
    /\ NumInputs >= 2
    /\ \A i \in 1..NumInputs : ~input_list[i].layover
    /\ Len(reproj_calls) >= 1
    /\ mosaics # {}
    /\ layover_exist = "false"

\* C7: when two products of the input list have different polarization sets
\* (the empty set included), the run ends in the schema-inconsistency fault
\* raised by extract_nisar_polarization, with no intermediate raster and no
\* mosaic written.
DifferingPolsFaultBeforeOutput ==
    ( /\ pc \in {"done", "fault"}
      /\ AllExist
      /\ \E i, j \in 1..NumInputs :
            SeqToSet(input_list[i].pols) # SeqToSet(input_list[j].pols) ) =>
        /\ pc = "fault"
        /\ fault = "ValueError"
        /\ fault_pc = "discover"
        /\ scratch = {}
        /\ mosaics = {}

\* C8: when a path of the input list does not exist, the run never leaves
\* extract_nisar_polarization except through a fault raised there, and no
\* intermediate raster and no mosaic is ever written.
MissingInputFaultsBeforeOutput ==
    (\E i \in 1..NumInputs : ~input_list[i].exists) =>
        /\ pc \in {"discover", "fault"}
        /\ scratch = {}
        /\ mosaics = {}
        /\ pc = "fault" =>
              /\ fault_pc = "discover"
              /\ fault \in {"FileNotFoundError", "ValueError"}

\* the second input of the list is the missing one and the run has faulted on it
MissingInputFaultsBeforeOutputWitness ==
    /\ pc = "fault"
    /\ fault = "FileNotFoundError"
    /\ NumInputs >= 2
    /\ input_list[1].exists
    /\ fault_at[1] = 2

\* the mosaics due at the end of the run
DueMosaics ==
    DataNames \cup (IF layover_exist = "true" THEN {"layover"} ELSE {})

\* C9: at the end of every run, whichever step raised the fault, the mosaics
\* present are either the complete set or none.
NoPartialMosaics ==
    pc \in {"done", "fault"} => (mosaics = {} \/ mosaics = DueMosaics)

\* C10: when a call of change_epsg_tif fails, it is the last one made, the run
\* is in a fault raised by it and takes no further step, the raster it was
\* given is still in place unreplaced, no Combine call has happened and no
\* mosaic has been written.
ReprojectionFailureIsFatal ==
    /\ [](\A k \in 1..Len(reproj_calls) :
            ~reproj_calls[k].ok =>
                /\ k = Len(reproj_calls)
                /\ pc = "fault"
                /\ fault = "ReprojectError"
                /\ fault_at = reproj_calls[k].input_tif
                /\ HasFile(reproj_calls[k].input_tif)
                /\ ~FileAt(reproj_calls[k].input_tif).reprojected
                /\ combine_calls = <<>>
                /\ mosaics = {})
    /\ [][fault # "ReprojectError"]_vars

\* the reprojection of a layover raster failed after an earlier one succeeded
ReprojectionFailureIsFatalWitness ==
    /\ pc = "fault"
    /\ fault = "ReprojectError"
    /\ fault_at[2] = "layover"
    /\ Len(reproj_calls) >= 2
    /\ reproj_calls[1].ok

\* the number of calls of change_epsg_tif made on the raster at path
ReprojCount(path) ==
    Cardinality({k \in 1..Len(reproj_calls) : reproj_calls[k].input_tif = path})

\* the EPSG loop of write_rtc_geotiff has run to its end
HarmonizeFinished ==
    \/ pc \in {"layover", "layover_harmonize", "combine", "done"}
    \/ pc = "fault" /\ fault_pc \in {"layover", "layover_harmonize", "combine"}

\* C11: change_epsg_tif is only ever called on rasters of inputs whose EPSG
\* differs from the majority, with the majority code as target and 255 as
\* no-data value; once the EPSG loop is over it has been called exactly once
\* for each channel raster of each such input and never for another channel
\* raster; when all inputs share one code no call is made and no raster is
\* replaced.
ReprojectionOncePerNonConforming ==
    /\ \A k \in 1..Len(reproj_calls) :
          /\ reproj_calls[k].epsg_output = most_freq_epsg
          /\ reproj_calls[k].output_nodata = 255
          /\ epsg_array[reproj_calls[k].input_tif[1]] # most_freq_epsg
    /\ \A i \in 1..Len(epsg_array) : \A ch \in DataNames :
          /\ ReprojCount(<<i, ch>>) <= 1
          /\ HarmonizeFinished =>
                ReprojCount(<<i, ch>>) =
                    IF epsg_array[i] # most_freq_epsg THEN 1 ELSE 0
    /\ (\A i, j \in 1..NumInputs : input_list[i].epsg = input_list[j].epsg) =>
          /\ reproj_calls = <<>>
          /\ \A f \in scratch : ~f.reprojected

\* a run of three inputs, two channels, one input off the majority, has
\* returned after reprojecting both channel rasters of that input
ReprojectionOncePerNonConformingWitness ==
    /\ pc = "done"
    /\ NumInputs >= 3
    /\ Len(data_path) = 2
    /\ \E i \in 1..NumInputs :
          /\ epsg_array[i] # most_freq_epsg
          /\ \A ch \in DataNames : ReprojCount(<<i, ch>>) = 1
    /\ \E i \in 1..NumInputs : epsg_array[i] = most_freq_epsg

GeogridCoversEveryRaster ==
    pc = "combine" =>
        \A i \in 1..NumInputs : \A ch \in DataNames :
            \E k \in 1..Len(geogrid_in) :
                /\ geogrid_in[k].path = <<extract_file_name(i), ch>>
                /\ geogrid_in[k].crs = most_freq_epsg
                /\ epsg_array[i] # most_freq_epsg => geogrid_in[k].reprojected

\* C14: at every call of mosaic_single_output_file, for a channel or for the
\* layover mask, every raster of the list handed over carries the majority
\* CRS.
CombineListInMajorityCrs ==
    \A k \in 1..Len(combine_calls) :
        \A i \in 1..Len(combine_calls[k].crs) :
            combine_calls[k].crs[i] = most_freq_epsg

\* C15: in a run that returns over N inputs with the same polarization set P,
\* mosaic_single_output_file has been called exactly once per channel of P,
\* in the order of P, each time with the N raster paths of that channel in
\* input-list order, the configured mosaic mode and the accumulated Geogrid,
\* and exactly |P| channel mosaics are present.
CombineOncePerChannel ==
    ( /\ pc = "done"
      /\ \A i, j \in 1..NumInputs : input_list[i].pols = input_list[j].pols ) =>
        /\ Len(combine_calls) \in {Len(data_path), Len(data_path) + 1}
        /\ \A k \in 1..Len(combine_calls) :
              k > Len(data_path) <=> combine_calls[k].layer = "layover"
        /\ \A k \in 1..Len(data_path) :
              /\ combine_calls[k].layer = input_list[1].pols[k]
              /\ combine_calls[k].list =
                    [i \in 1..NumInputs |-> <<i, input_list[1].pols[k]>>]
              /\ combine_calls[k].mode = mosaic_mode
              /\ combine_calls[k].geogrid = geogrid_in
              /\ combine_calls[k].ok
        /\ Len(data_path) = Len(input_list[1].pols)
        /\ mosaics \ {"layover"} = SeqToSet(input_list[1].pols)
        /\ Cardinality(mosaics \ {"layover"}) = Len(input_list[1].pols)

\* a run of three inputs and two channels in mode burst_center has returned
CombineOncePerChannelWitness ==
    /\ pc = "done"
    /\ NumInputs >= 3
    /\ Len(data_path) = 2
    /\ mosaic_mode = "burst_center"
    /\ Cardinality(mosaics \ {"layover"}) = 2
    /\ Len(reproj_calls) >= 1

\* C17: every layover raster written carries the geotransform, CRS, metadata
\* and row count of the input it was read from.  (geo and rows name the input
\* whose values were passed to read_write_rtc.)
LayoverRasterOwnGeodata ==
    \A f \in scratch :
        f.path[2] = "layover" =>
            /\ f.geo = f.path[1]
            /\ f.rows = f.path[1]
            /\ ~f.reprojected => f.crs = input_list[f.path[1]].epsg

(* ---- The box covered by the Geogrid --------------------------------------*)

\* a box is an interval <<lo, hi>> along one axis; lo > hi is the empty box
EmptyBox == <<1, 0>>
IsEmptyBox(b) == b[1] > b[2]

\* the footprint update_geogrid reads from a registered raster: the stretch
\* given by the geotransform it was created with, wider once reprojected
Footprint(reg) ==
    IF reg.reprojected
    THEN <<3 * reg.geo - 1, 3 * reg.geo + 3>>
    ELSE <<3 * reg.geo, 3 * reg.geo + 2>>

\* DSWXGeogrid.update_geogrid: the box is widened to take the footprint in
update_geogrid(box, fp) ==
    IF IsEmptyBox(box) THEN fp
    ELSE <<IF fp[1] < box[1] THEN fp[1] ELSE box[1],
           IF fp[2] > box[2] THEN fp[2] ELSE box[2]>>

RECURSIVE GeogridBox(_)
\* the box of a DSWXGeogrid after the registrations of log, in order
GeogridBox(log) ==
    IF Len(log) = 0 THEN EmptyBox
    ELSE update_geogrid(GeogridBox(SubSeq(log, 1, Len(log) - 1)),
                        Footprint(log[Len(log)]))

BoxContains(outer, inner) ==
    \/ IsEmptyBox(inner)
    \/ /\ ~IsEmptyBox(outer)
       /\ outer[1] <= inner[1]
       /\ outer[2] >= inner[2]

RwInit ==
    /\ num_rows \in 1..MaxDim
    /\ num_cols \in 1..MaxDim
    /\ row_blk_size \in 1..MaxBlock
    /\ col_blk_size \in 1..MaxBlock
    /\ idx_y = 1
    /\ idx_x = 1
    /\ win_reads = <<>>
    /\ win_writes = <<>>
    /\ rw_pc = "open"
    /\ SliceIdle
    /\ SanIdle
    /\ RunIdle
    /\ NameIdle
    /\ ZmfIdle

RowSlices == slice_gen(num_rows, row_blk_size, TRUE)
ColSlices == slice_gen(num_cols, col_blk_size, TRUE)

\* the window of the block at (idx_y, idx_x)
BlockWindow ==
    <<ColSlices[idx_x][1], RowSlices[idx_y][1],
      ColSlices[idx_x][2] - ColSlices[idx_x][1],
      RowSlices[idx_y][2] - RowSlices[idx_y][1]>>

\* the window lies inside the raster of num_rows by num_cols
WindowInside(w) ==
    /\ w[1] >= 0
    /\ w[2] >= 0
    /\ w[3] >= 1
    /\ w[4] >= 1
    /\ w[1] + w[3] <= num_cols
    /\ w[2] + w[4] <= num_rows

\* rasterio.open(output_gtiff, 'w', height=num_rows, width=num_cols, ...)
RwOpen ==
    /\ rw_pc = "open"
    /\ rw_pc' = "loop"
    /\ UNCHANGED <<num_rows, num_cols, row_blk_size, col_blk_size, idx_y,
                   idx_x, win_reads, win_writes>>
    /\ UNCHANGED <<slice_vars, san_vars, run_vars, name_vars, zmf_vars>>

\* one block: ReadAsArray, the three replacements, dst.write
RwBlock ==
    /\ rw_pc = "loop"
    /\ idx_y <= Len(RowSlices)
    /\ idx_x <= Len(ColSlices)
    /\ win_reads' = Append(win_reads, BlockWindow)
    /\ IF WindowInside(BlockWindow)
       THEN /\ win_writes' = Append(win_writes, BlockWindow)
            /\ IF idx_x < Len(ColSlices)
               THEN /\ idx_x' = idx_x + 1
                    /\ UNCHANGED idx_y
               ELSE /\ idx_x' = 1
                    /\ idx_y' = idx_y + 1
            /\ UNCHANGED rw_pc
       ELSE /\ rw_pc' = "fault"
            /\ UNCHANGED <<win_writes, idx_x, idx_y>>
    /\ UNCHANGED <<num_rows, num_cols, row_blk_size, col_blk_size>>
    /\ UNCHANGED <<slice_vars, san_vars, run_vars, name_vars, zmf_vars>>

\* both loops are over: dst.update_tags and the file is closed
RwClose ==
    /\ rw_pc = "loop"
    /\ idx_y > Len(RowSlices)
    /\ rw_pc' = "closed"
    /\ UNCHANGED <<num_rows, num_cols, row_blk_size, col_blk_size, idx_y,
                   idx_x, win_reads, win_writes>>
    /\ UNCHANGED <<slice_vars, san_vars, run_vars, name_vars, zmf_vars>>

RwNext == RwOpen \/ RwBlock \/ RwClose

RwSpec == RwInit /\ [][RwNext]_vars

\* the number of windows written that hold the pixel at row r, column c
WritesOn(r, c) ==
    Cardinality({k \in 1..Len(win_writes) :
        /\ win_writes[k][1] <= c
        /\ c < win_writes[k][1] + win_writes[k][3]
        /\ win_writes[k][2] <= r
        /\ r < win_writes[k][2] + win_writes[k][4]})

\* C18: for every raster of num_rows >= 1 by num_cols >= 1 and every block
\* size > 0, every window read_write_rtc reads or writes lies inside the
\* raster, the loop does not fail, and once it is over every pixel has been
\* written by exactly one window.
WindowsTileRaster ==
    /\ \A k \in 1..Len(win_reads) : WindowInside(win_reads[k])
    /\ \A k \in 1..Len(win_writes) : WindowInside(win_writes[k])
    /\ rw_pc # "fault"
    /\ rw_pc = "closed" =>
          \A r \in 0..(num_rows - 1) : \A c \in 0..(num_cols - 1) :
              WritesOn(r, c) = 1

(* ---- Order of the steps of a run -----------------------------------------*)

\* the raster at path has been written, reprojected if its input is off the
\* majority, and registered in the Geogrid in that form
RasterReady(i, layer) ==
    /\ HasFile(<<extract_file_name(i), layer>>)
    /\ epsg_array[i] # most_freq_epsg =>
          FileAt(<<extract_file_name(i), layer>>).reprojected
    /\ \E k \in 1..Len(geogrid_in) :
          /\ geogrid_in[k].path = <<extract_file_name(i), layer>>
          /\ epsg_array[i] # most_freq_epsg => geogrid_in[k].reprojected

\* C19: no call of mosaic_single_output_file happens before every channel
\* raster of every input, and the layover raster of every input that holds
\* the layover mask, has been written, reprojected where required and
\* registered in the Geogrid; and once a step has raised a fault the run takes
\* no further step.
StepsInOrder ==
    /\ [](Len(combine_calls) >= 1 =>
            \A i \in 1..NumInputs :
                /\ \A ch \in DataNames : RasterReady(i, ch)
                /\ input_list[i].layover => RasterReady(i, "layover"))
    /\ [][pc # "fault"]_vars

(* ---- Range of the samples written ---------------------------------------*)

\* C20: every sample read_write_rtc writes is NaN or a finite value that is
\* not zero and not greater than 500.0, whatever the source sample was.
WrittenSamplesInRange ==
    san_pc = "written" =>
        \A k \in 1..Len(dst_blk) :
            \/ dst_blk[k] = <<"nan", 0>>
            \/ /\ dst_blk[k][1] = "fin"
               /\ dst_blk[k][2] # 0
               /\ dst_blk[k][2] <= 500

\* a block holding -0.0 and +inf has been written
WrittenSamplesInRangeWitness ==
    /\ san_pc = "written"
    /\ \E k \in 1..Len(src_blk) : src_blk[k] = NegZero
    /\ \E k \in 1..Len(src_blk) : src_blk[k] = PosInf
    /\ \E k \in 1..Len(dst_blk) : dst_blk[k] = Fin(500)

(***************************************************************************)
(* File names of a run started through run(cfg)                            *)
(*                                                                         *)
(* An input path is [dir, name], name being the last component as a        *)
(* sequence of characters.  A raster path f'{dir}/{prefix}_{layer}.tif' is *)
(* kept as <<dir, prefix, layer>>.                                         *)
(***************************************************************************)
NameChars == {"a", "-", "."}
InputDirs == {"in1", "in2"}
Layers == {"HH", "HV", "layover"}

\* the sequences over NameChars of length 1..n
RECURSIVE NamesUpTo(_)
NamesUpTo(n) ==
    IF n = 0 THEN {}
    ELSE NamesUpTo(n - 1) \cup [1..n -> NameChars]

\* the names a file can bear: "." and ".." are not files
FileNames == NamesUpTo(MaxNameLen) \ {<<".">>, <<".", ".">>}

\* str.rfind(ch) + 1: the last position of ch in name, 0 when absent
RFind(name, ch) ==
    IF \E k \in 1..Len(name) : name[k] = ch
    THEN CHOOSE k \in 1..Len(name) :
            /\ name[k] = ch
            /\ \A j \in (k + 1)..Len(name) : name[j] # ch
    ELSE 0

\* Path(input_rtc).stem: the name without its last suffix
PathStem(name) ==
    LET k == RFind(name, ".")
    IN  IF k > 1 /\ k < Len(name) THEN SubSeq(name, 1, k - 1) ELSE name

\* stem.split('-')[0]: what stands before the first '-'
SplitFirst(stem) ==
    IF \E k \in 1..Len(stem) : stem[k] = "-"
    THEN SubSeq(stem, 1,
            (CHOOSE k \in 1..Len(stem) :
                /\ stem[k] = "-"
                /\ \A j \in 1..(k - 1) : stem[j] # "-") - 1)
    ELSE stem

\* file_name = Path(input_rtc).stem.split('-')[0]
file_name(input_rtc) == SplitFirst(PathStem(input_rtc.name))

NameInit ==
    /\ name_inputs \in [1..2 -> [dir : InputDirs, name : FileNames]]
    /\ mosaic_prefix \in {<<"a">>, <<"a", "a">>, <<"m">>}
    /\ scratch_dir = "unset"
    /\ output_dir = "unset"
    /\ name_prefixes = <<>>
    /\ name_pc = "run"
    /\ SliceIdle
    /\ SanIdle
    /\ RunIdle
    /\ RwIdle
    /\ ZmfIdle

\* run: scratch_dir is read from cfg and handed to process_rtc_hdf5 both as
\* output_dir and as scratch_dir
RunCfg ==
    /\ name_pc = "run"
    /\ scratch_dir' = "scratch"
    /\ output_dir' = "scratch"
    /\ name_pc' = "stage"
    /\ UNCHANGED <<name_inputs, mosaic_prefix, name_prefixes>>
    /\ UNCHANGED <<slice_vars, san_vars, run_vars, rw_vars, zmf_vars>>

\* the staging loop: output_prefix = self.extract_file_name(input_rtc)
StageName ==
    /\ name_pc = "stage"
    /\ Len(name_prefixes) < Len(name_inputs)
    /\ name_prefixes' =
           Append(name_prefixes,
                  file_name(name_inputs[Len(name_prefixes) + 1]))
    /\ UNCHANGED <<name_inputs, mosaic_prefix, scratch_dir, output_dir, name_pc>>
    /\ UNCHANGED <<slice_vars, san_vars, run_vars, rw_vars, zmf_vars>>

\* the staging loop is over
StageNamesDone ==
    /\ name_pc = "stage"
    /\ Len(name_prefixes) = Len(name_inputs)
    /\ name_pc' = "mosaic"
    /\ UNCHANGED <<name_inputs, mosaic_prefix, scratch_dir, output_dir,
                   name_prefixes>>
    /\ UNCHANGED <<slice_vars, san_vars, run_vars, rw_vars, zmf_vars>>

\* mosaic_rtc_geotiff has named and written its mosaics
MosaicNames ==
    /\ name_pc = "mosaic"
    /\ name_pc' = "done"
    /\ UNCHANGED <<name_inputs, mosaic_prefix, scratch_dir, output_dir,
                   name_prefixes>>
    /\ UNCHANGED <<slice_vars, san_vars, run_vars, rw_vars, zmf_vars>>

NameNext == RunCfg \/ StageName \/ StageNamesDone \/ MosaicNames

NameSpec == NameInit /\ [][NameNext]_vars

\* f'{scratch_dir}/{output_prefix}_{data_name}.tif' for the input at i
IntermediatePath(i, layer) == <<scratch_dir, name_prefixes[i], layer>>

\* f'{output_dir}/{mosaic_prefix}_{data_name}.tif'
MosaicPath(layer) == <<output_dir, mosaic_prefix, layer>>

\* C21: for two distinct input paths and any channel or the layover mask, the
\* intermediate raster paths derived for the two inputs differ.
DistinctInputsDistinctRasters ==
    (name_pc = "done" /\ name_inputs[1] # name_inputs[2]) =>
        \A layer \in Layers :
            IntermediatePath(1, layer) # IntermediatePath(2, layer)

\* C22: in a run started through run(cfg), the path of every mosaic differs
\* from the path of every intermediate raster of the run.
MosaicNeverOverIntermediate ==
    name_pc = "done" =>
        \A i \in 1..Len(name_prefixes) : \A layer, other \in Layers :
            MosaicPath(layer) # IntermediatePath(i, other)

(***************************************************************************)
(* zmf of fuzzy_value_computation.py                                       *)
(*                                                                         *)
(* values is an array of two samples; minv, maxv and the samples are       *)
(* integers and every result is kept exactly, as <<numerator,              *)
(* denominator>> with a positive denominator.                              *)
(***************************************************************************)
ZmfSamples == (0 - 1)..(MaxV + 1)

RatLeq(a, b) == a[1] * b[2] <= b[1] * a[2]
RatEq(a, b) == a[1] * b[2] = b[1] * a[2]

Sq(x) == x * x

\* membership_left = 1 - 2 * (((values - minv) / (maxv - minv))**2)
membership_left(v) ==
    <<Sq(zmf_maxv - zmf_minv) - 2 * Sq(v - zmf_minv), Sq(zmf_maxv - zmf_minv)>>

\* mask_left = (values >= minv) & (values <= center_value),
\* center_value = (minv + maxv) / 2
mask_left(v) == v >= zmf_minv /\ 2 * v <= zmf_minv + zmf_maxv

\* membership_right = 2 * (((values - maxv) / (maxv - minv))**2)
membership_right(v) ==
    <<2 * Sq(v - zmf_maxv), Sq(zmf_maxv - zmf_minv)>>

\* mask_right = (values >= minv) & (values <= center_value)
mask_right(v) == v >= zmf_minv /\ 2 * v <= zmf_minv + zmf_maxv

ZmfInit ==
    /\ zmf_minv \in 0..MaxV
    /\ zmf_maxv \in 0..MaxV
    /\ zmf_minv < zmf_maxv
    /\ zmf_values \in [1..2 -> ZmfSamples]
    /\ zmf_output = <<>>
    /\ zmf_pc = "zeros"
    /\ SliceIdle
    /\ SanIdle
    /\ RunIdle
    /\ RwIdle
    /\ NameIdle

\* output = np.zeros(np.shape(values))
ZmfZeros ==
    /\ zmf_pc = "zeros"
    /\ zmf_output' = [i \in 1..Len(zmf_values) |-> <<0, 1>>]
    /\ zmf_pc' = "left"
    /\ UNCHANGED <<zmf_values, zmf_minv, zmf_maxv>>
    /\ UNCHANGED <<slice_vars, san_vars, run_vars, rw_vars, name_vars>>

\* output[mask_left] = membership_left[mask_left]
ZmfLeft ==
    /\ zmf_pc = "left"
    /\ zmf_output' = [i \in 1..Len(zmf_values) |->
            IF mask_left(zmf_values[i])
            THEN membership_left(zmf_values[i])
            ELSE zmf_output[i]]
    /\ zmf_pc' = "right"
    /\ UNCHANGED <<zmf_values, zmf_minv, zmf_maxv>>
    /\ UNCHANGED <<slice_vars, san_vars, run_vars, rw_vars, name_vars>>

\* output[mask_right] = membership_right[mask_right]
ZmfRight ==
    /\ zmf_pc = "right"
    /\ zmf_output' = [i \in 1..Len(zmf_values) |->
            IF mask_right(zmf_values[i])
            THEN membership_right(zmf_values[i])
            ELSE zmf_output[i]]
    /\ zmf_pc' = "upper"
    /\ UNCHANGED <<zmf_values, zmf_minv, zmf_maxv>>
    /\ UNCHANGED <<slice_vars, san_vars, run_vars, rw_vars, name_vars>>

\* output[values >= maxv] = 0
ZmfUpper ==
    /\ zmf_pc = "upper"
    /\ zmf_output' = [i \in 1..Len(zmf_values) |->
            IF zmf_values[i] >= zmf_maxv THEN <<0, 1>> ELSE zmf_output[i]]
    /\ zmf_pc' = "lower"
    /\ UNCHANGED <<zmf_values, zmf_minv, zmf_maxv>>
    /\ UNCHANGED <<slice_vars, san_vars, run_vars, rw_vars, name_vars>>

\* output[values <= minv] = 1; return output
ZmfLower ==
    /\ zmf_pc = "lower"
    /\ zmf_output' = [i \in 1..Len(zmf_values) |->
            IF zmf_values[i] <= zmf_minv THEN <<1, 1>> ELSE zmf_output[i]]
    /\ zmf_pc' = "done"
    /\ UNCHANGED <<zmf_values, zmf_minv, zmf_maxv>>
    /\ UNCHANGED <<slice_vars, san_vars, run_vars, rw_vars, name_vars>>

ZmfNext == ZmfZeros \/ ZmfLeft \/ ZmfRight \/ ZmfUpper \/ ZmfLower

ZmfSpec == ZmfInit /\ [][ZmfNext]_vars

\* the Z-shaped membership of v between minv and maxv
ZShape(v, minv, maxv) ==
    IF v <= minv THEN <<1, 1>>
    ELSE IF 2 * v <= minv + maxv
         THEN <<Sq(maxv - minv) - 2 * Sq(v - minv), Sq(maxv - minv)>>
    ELSE IF v <= maxv
         THEN <<2 * Sq(v - maxv), Sq(maxv - minv)>>
    ELSE <<0, 1>>

\* C23: for minv < maxv the result of zmf is the Z-shaped membership of each
\* value, so it lies in [0, 1] and does not increase as the value increases.
ZmfIsZShaped ==
    zmf_pc = "done" =>
        /\ \A i \in 1..Len(zmf_values) :
              /\ RatEq(zmf_output[i], ZShape(zmf_values[i], zmf_minv, zmf_maxv))
              /\ RatLeq(<<0, 1>>, zmf_output[i])
              /\ RatLeq(zmf_output[i], <<1, 1>>)
        /\ \A i, j \in 1..Len(zmf_values) :
              zmf_values[i] <= zmf_values[j] =>
                  RatLeq(zmf_output[j], zmf_output[i])

====
